---- MODULE Spec2Model ----
(***************************************************************************)
(* Model of scripts/loader.py: the loader of the 1925 Latvian "messy"      *)
(* meteorological text files.                                              *)
(*                                                                         *)
(* A Python str is a sequence of one-character strings, so that split,     *)
(* strip, replace and the regular expressions of the source are computed   *)
(* character by character.  A file is a sequence of lines; a line is kept  *)
(* without its trailing newline (the source strips it before use).         *)
(***************************************************************************)
EXTENDS Integers, Sequences, FiniteSets, TLC

VARIABLES
    \* _detect_separator as called by _read_header, on one header line
    sd_line, sd_sep, sd_cols, sd_pc,
    \* _read_header: the scan loop over the lines of one file
    hd_lines, hd_i, hd_station, hd_fields, hd_pc, hd_result,
    \* _read_rows_raw: the loop over the lines of one file
    rr_sep, rr_cols, rr_line, rr_rows,
    \* _parse_float_messy applied to one cell
    pf_x, pf_result, pf_pc,
    \* _parse_date_any applied to one cell
    pd_s, pd_result, pd_pc,
    \* load_one on the file being loaded
    lo_pc, lo_header, lo_df, lo_out,
    \* load_all: the paths, the frames loaded, the concatenation, the result
    la_paths, la_i, la_frames, la_concat, la_merged, la_pc, la_error

sdVars == <<sd_line, sd_sep, sd_cols, sd_pc>>
hdVars == <<hd_lines, hd_i, hd_station, hd_fields, hd_pc, hd_result>>
rrVars == <<rr_sep, rr_cols, rr_line, rr_rows>>
pfVars == <<pf_x, pf_result, pf_pc>>
pdVars == <<pd_s, pd_result, pd_pc>>
loVars == <<lo_pc, lo_header, lo_df, lo_out>>
laVars == <<la_paths, la_i, la_frames, la_concat, la_merged, la_pc, la_error>>

vars == <<sdVars, hdVars, rrVars, pfVars, pdVars, loVars, laVars>>

\* The variables of the other components, which a component leaves alone.
notSd == <<hdVars, rrVars, pfVars, pdVars, loVars, laVars>>
notHd == <<sdVars, rrVars, pfVars, pdVars, loVars, laVars>>
notRr == <<sdVars, hdVars, pfVars, pdVars, loVars, laVars>>
notPf == <<sdVars, hdVars, rrVars, pdVars, loVars, laVars>>
notPd == <<sdVars, hdVars, rrVars, pfVars, loVars, laVars>>
notLoad == <<sdVars, hdVars, rrVars, pfVars, pdVars>>

(***************************************************************************)
(* Bounds of the model.                                                    *)
(***************************************************************************)
MaxPayload == 3
MaxLines == 3
MaxLineLen == 3
MaxCols == 3
MaxRows == 1
MaxCell == 4
MaxFiles == 2
MaxFileRows == 2

(***************************************************************************)
(* Python values.                                                          *)
(***************************************************************************)
\* Python's None where a str is expected: a one-element sequence whose
\* element is not a character, so it differs from every str.
None == <<"None">>

\* numpy's NaN in a column of str cells (pd.isna is true of it and of None).
NaN == <<"NaN">>
isna(x) == x = NaN \/ x = None

TAB == "\t"
\* The em-dash character U+2014, written as one character of the model.
EM_DASH == "U+2014"
Whitespace == {" ", TAB}
Digits == {"0", "1", "2", "3", "4", "5", "6", "7", "8", "9"}

Min(S) == CHOOSE x \in S : \A y \in S : x <= y
Max(S) == CHOOSE x \in S : \A y \in S : y <= x

\* All sequences over S of length at most n.
SeqUpTo(S, n) == UNION {[1..k -> S] : k \in 0..n}

\* str.startswith
StartsWith(s, p) == Len(p) <= Len(s) /\ SubSeq(s, 1, Len(p)) = p

\* str.find, 1-based; 0 when sub does not occur in s.
Find(s, sub) ==
    LET occ == {i \in 1..(Len(s) - Len(sub) + 1) :
                    SubSeq(s, i, i + Len(sub) - 1) = sub}
    IN IF occ = {} THEN 0 ELSE Min(occ)

\* sub in s
Contains(s, sub) == Find(s, sub) # 0

\* s[i:] with a 1-based i
From(s, i) == SubSeq(s, i, Len(s))

\* str.strip(): leading and trailing whitespace removed.
Strip(s) ==
    LET keep == {i \in 1..Len(s) : s[i] \notin Whitespace}
    IN IF keep = {} THEN <<>> ELSE SubSeq(s, Min(keep), Max(keep))

\* str.split(sep, maxsplit): maxsplit = -1 splits at every occurrence.
RECURSIVE Split(_, _, _)
Split(s, sep, maxsplit) ==
    LET i == Find(s, sep)
    IN IF i = 0 \/ maxsplit = 0
       THEN <<s>>
       ELSE <<SubSeq(s, 1, i - 1)>> \o Split(From(s, i + Len(sep)), sep, maxsplit - 1)

\* sep.join(parts)
RECURSIVE Join(_, _)
Join(parts, sep) ==
    IF Len(parts) = 0 THEN <<>>
    ELSE IF Len(parts) = 1 THEN parts[1]
    ELSE parts[1] \o sep \o Join(Tail(parts), sep)

\* str.replace(old, new): every non-overlapping occurrence, left to right.
RECURSIVE Replace(_, _, _)
Replace(s, old, new) ==
    LET i == Find(s, old)
    IN IF i = 0 THEN s
       ELSE SubSeq(s, 1, i - 1) \o new \o Replace(From(s, i + Len(old)), old, new)

(***************************************************************************)
(* Literals of the source.                                                 *)
(***************************************************************************)
kw_fields == <<"f", "i", "e", "l", "d", "s", "=">>
kw_station_name == <<"s", "t", "a", "t", "i", "o", "n", "_", "n", "a", "m", "e", "=">>
hash_fields == <<"#", " ">> \o kw_fields

(***************************************************************************)
(* _detect_separator                                                       *)
(***************************************************************************)
\* A plausible slip: the comma tried first.
SepOrderCommaFirst == <<",", ";", "|">>

\* The separators tried after TAB, in the order of the source's tuple.
SepOrder == <<"|", ";", ",">>

\* The part of a fields line after the first "fields=".
AfterFields(fields_line) == Split(fields_line, kw_fields, 1)[2]

FirstSepIn(payload, order) ==
    LET hit == {k \in 1..Len(order) : Contains(payload, <<order[k]>>)}
    IN IF hit = {} THEN <<",">> ELSE <<order[Min(hit)]>>

_detect_separator(fields_line) ==
    LET payload == Strip(AfterFields(fields_line))
    IN IF Contains(payload, <<TAB>>) THEN <<TAB>>
       ELSE FirstSepIn(payload, SepOrder)

\* cols = [c.strip() for c in fields_line.split("fields=", 1)[1].split(sep)]
HeaderCols(fields_line, sep) ==
    LET raw == Split(AfterFields(fields_line), sep, -1)
    IN [k \in 1..Len(raw) |-> Strip(raw[k])]

(***************************************************************************)
(* _read_header                                                            *)
(***************************************************************************)
\* One iteration of "for line in f": the new (station_name, fields_line)
\* and whether the loop is left.
\* A plausible slip: the fields line is recorded but the loop goes on.
ScanStepNoBreak(station_name, line) ==
    IF ~StartsWith(line, <<"#">>)
    THEN [station_name |-> station_name, fields_line |-> None, brk |-> TRUE]
    ELSE LET st == IF Contains(line, kw_station_name)
                   THEN Split(Strip(line), kw_station_name, -1)[2]
                   ELSE station_name
         IN [station_name |-> st,
             fields_line |-> IF StartsWith(line, hash_fields) THEN Strip(line) ELSE None,
             brk |-> FALSE]

ScanStep(station_name, line) ==
    IF ~StartsWith(line, <<"#">>)
    THEN [station_name |-> station_name, fields_line |-> None, brk |-> TRUE]
    ELSE LET st == IF Contains(line, kw_station_name)
                   THEN Split(Strip(line), kw_station_name, -1)[2]
                   ELSE station_name
         IN IF StartsWith(line, hash_fields)
            THEN [station_name |-> st, fields_line |-> Strip(line), brk |-> TRUE]
            ELSE [station_name |-> st, fields_line |-> None, brk |-> FALSE]

\* What _read_header returns once the loop is over: "raise" for ValueError.
HeaderResult(station_name, fields_line, stem) ==
    IF fields_line = None
    THEN [kind |-> "raise", station |-> <<>>, sep |-> <<>>, cols |-> <<>>]
    ELSE LET sep == _detect_separator(fields_line)
         IN [kind |-> "return",
             station |-> IF station_name = None \/ station_name = <<>>
                         THEN stem ELSE station_name,
             sep |-> sep,
             cols |-> HeaderCols(fields_line, sep)]

(***************************************************************************)
(* _read_rows_raw                                                          *)
(***************************************************************************)
\* re.sub(r"(?<=\d),(?=\d)", ".", line): a comma strictly between two digits
\* becomes a decimal point.
DecimalCommaFix(line) ==
    [i \in 1..Len(line) |->
        IF /\ line[i] = ","
           /\ i > 1 /\ i < Len(line)
           /\ line[i - 1] \in Digits /\ line[i + 1] \in Digits
        THEN "." ELSE line[i]]

\* The line as it is split: rewritten only when the separator is the comma.
Rewritten(line, sep) == IF sep = <<",">> THEN DecimalCommaFix(line) ELSE line

\* [""] * k
EmptyTokens(k) == [j \in 1..k |-> <<>>]

\* A plausible slip: short rows are left short.
RowOfNoPad(line, sep, n) ==
    LET parts == Split(Rewritten(line, sep), sep, -1)
    IN IF Len(parts) > n
       THEN SubSeq(parts, 1, n - 1) \o <<Join(SubSeq(parts, n, Len(parts)), sep)>>
       ELSE parts

\* A plausible slip: the overflow is cut off instead of folded.
RowOfCutOverflow(line, sep, n) ==
    LET parts == Split(Rewritten(line, sep), sep, -1)
    IN IF Len(parts) > n
       THEN SubSeq(parts, 1, n)
       ELSE parts \o EmptyTokens(n - Len(parts))

\* The row appended for one non-comment line, against n declared columns.
RowOf(line, sep, n) ==
    LET parts == Split(Rewritten(line, sep), sep, -1)
    IN IF Len(parts) # n
       THEN IF Len(parts) > n
            THEN LET head == SubSeq(parts, 1, n - 1)
                     tail == Join(SubSeq(parts, n, Len(parts)), sep)
                 IN head \o <<tail>>
            ELSE parts \o EmptyTokens(n - Len(parts))
       ELSE parts

(***************************************************************************)
(* _parse_float_messy                                                      *)
(***************************************************************************)
NA_TOKENS == {<<>>, <<"N", "A">>, <<EM_DASH>>, <<"-", "9", "9", "9">>}
WORD_ZERO == {<<"n", "u", "l", "l", "e">>, <<"N", "U", "L", "L", "E">>}

\* str.lower() on the letters the model writes.
LowerChar(c) ==
    CASE c = "N" -> "n" [] c = "U" -> "u" [] c = "L" -> "l" [] c = "E" -> "e"
      [] c = "M" -> "m" [] c = "A" -> "a" [] OTHER -> c
Lower(s) == [i \in 1..Len(s) |-> LowerChar(s[i])]

DigitVal(c) ==
    CASE c = "0" -> 0 [] c = "1" -> 1 [] c = "2" -> 2 [] c = "3" -> 3 [] c = "4" -> 4
      [] c = "5" -> 5 [] c = "6" -> 6 [] c = "7" -> 7 [] c = "8" -> 8 [] c = "9" -> 9

\* int(text) of a run of digits.
RECURSIVE IntOf(_)
IntOf(ds) == IF ds = <<>> THEN 0 ELSE 10 * IntOf(SubSeq(ds, 1, Len(ds) - 1)) + DigitVal(ds[Len(ds)])

RECURSIVE Pow10(_)
Pow10(k) == IF k = 0 THEN 1 ELSE 10 * Pow10(k - 1)

\* The end of the run of digits that starts at i.
DigitRunEnd(s, i) == Max({j \in i..Len(s) : \A k \in i..j : s[k] \in Digits})

\* re.search(r"-?\d+(?:\.\d+)?", s): the span [lo, hi] of the leftmost match,
\* lo = 0 when there is none.  Every quantifier is greedy and nothing after
\* it can fail, so the match at a start position is unique.
NumeralSearch(s) ==
    LET starts == {i \in 1..Len(s) :
                      \/ s[i] \in Digits
                      \/ s[i] = "-" /\ i < Len(s) /\ s[i + 1] \in Digits}
    IN IF starts = {} THEN [lo |-> 0, hi |-> 0]
       ELSE LET i == Min(starts)
                d == IF s[i] = "-" THEN i + 1 ELSE i
                e == DigitRunEnd(s, d)
            IN IF e + 2 <= Len(s) /\ s[e + 1] = "." /\ s[e + 2] \in Digits
               THEN [lo |-> i, hi |-> DigitRunEnd(s, e + 2)]
               ELSE [lo |-> i, hi |-> e]

\* A float as num / 10^scale, with no trailing zero in the fraction.
RECURSIVE Normal(_, _)
Normal(num, scale) ==
    IF scale > 0 /\ num % 10 = 0 THEN Normal(num \div 10, scale - 1)
    ELSE [kind |-> "float", num |-> num, scale |-> scale]

nan == [kind |-> "nan", num |-> 0, scale |-> 0]

\* float(text) of a text matched by the numeral pattern.
FloatOf(text) ==
    LET neg == text[1] = "-"
        body == IF neg THEN Tail(text) ELSE text
        dot == Find(body, <<".">>)
        ip == IF dot = 0 THEN body ELSE SubSeq(body, 1, dot - 1)
        fp == IF dot = 0 THEN <<>> ELSE From(body, dot + 1)
        mag == IntOf(ip) * Pow10(Len(fp)) + IntOf(fp)
    IN Normal(IF neg THEN 0 - mag ELSE mag, Len(fp))

\* s.replace(" mm", "").replace("MM", "mm").replace(",", ".")
Unitless(s) ==
    Replace(Replace(Replace(s, <<" ", "m", "m">>, <<>>), <<"M", "M">>, <<"m", "m">>),
            <<",">>, <<".">>)

_parse_float_messy(x) ==
    IF isna(x) THEN nan
    ELSE LET s == Strip(x)
         IN IF s \in NA_TOKENS THEN nan
            ELSE IF Lower(s) \in WORD_ZERO THEN Normal(0, 0)
            ELSE LET t == Unitless(s)
                     m == NumeralSearch(t)
                 IN IF m.lo = 0 THEN nan ELSE FloatOf(SubSeq(t, m.lo, m.hi))

(***************************************************************************)
(* _parse_date_any                                                         *)
(***************************************************************************)
\* The formats tried, in the order of the source's tuple.  A format is the
\* sequence of its directives and literal characters.
_DATE_FORMATS ==
    << <<"%Y", "-", "%m", "-", "%d">>,
       <<"%d", ".", "%m", ".", "%Y">>,
       <<"%Y", "/", "%m", "/", "%d">>,
       <<"%d", "-", "%m", "-", "%Y">>,
       <<"%m", "-", "%d", "-", "%Y">>,
       <<"%Y", ".", "%m", ".", "%d">>,
       <<"%m", "/", "%d", "/", "%Y">> >>

Directives == {"%Y", "%m", "%d"}

\* Whether a run of digits is a text the directive's pattern accepts:
\* %Y is \d\d\d\d, %m is 1[0-2]|0[1-9]|[1-9], %d is 3[01]|[12]\d|0[1-9]|[1-9].
Accepts(directive, ds) ==
    CASE directive = "%Y" -> Len(ds) = 4
      [] directive = "%m" -> Len(ds) \in {1, 2} /\ IntOf(ds) \in 1..12
      [] directive = "%d" -> Len(ds) \in {1, 2} /\ IntOf(ds) \in 1..31

\* The fields strptime's pattern reads from s at position i under the rest
\* of a format, or "fail".  Each directive is followed by a literal or by the
\* end of the text (strptime rejects unconverted data), so the digits a
\* directive takes are the whole run of digits at its position.
RECURSIVE MatchFormat(_, _, _, _)
MatchFormat(s, i, fmt, got) ==
    IF fmt = <<>>
    THEN IF i = Len(s) + 1 THEN got ELSE [ok |-> FALSE, Y |-> 0, m |-> 0, d |-> 0]
    ELSE IF Head(fmt) \in Directives
    THEN IF i > Len(s) \/ s[i] \notin Digits
         THEN [ok |-> FALSE, Y |-> 0, m |-> 0, d |-> 0]
         ELSE LET e == DigitRunEnd(s, i)
                  ds == SubSeq(s, i, e)
              IN IF ~Accepts(Head(fmt), ds)
                 THEN [ok |-> FALSE, Y |-> 0, m |-> 0, d |-> 0]
                 ELSE MatchFormat(s, e + 1, Tail(fmt),
                         CASE Head(fmt) = "%Y" -> [got EXCEPT !.Y = IntOf(ds)]
                           [] Head(fmt) = "%m" -> [got EXCEPT !.m = IntOf(ds)]
                           [] Head(fmt) = "%d" -> [got EXCEPT !.d = IntOf(ds)])
    ELSE IF i <= Len(s) /\ s[i] = Head(fmt)
         THEN MatchFormat(s, i + 1, Tail(fmt), got)
         ELSE [ok |-> FALSE, Y |-> 0, m |-> 0, d |-> 0]

IsLeap(y) == y % 4 = 0 /\ (y % 100 # 0 \/ y % 400 = 0)
DaysIn(y, m) ==
    IF m = 2 THEN (IF IsLeap(y) THEN 29 ELSE 28)
    ELSE IF m \in {4, 6, 9, 11} THEN 30 ELSE 31

\* datetime.strptime(date_part, fmt): the date read, ok = FALSE for
\* ValueError (the text does not match, or names no day of the calendar).
strptime(date_part, fmt) ==
    LET r == MatchFormat(date_part, 1, fmt, [ok |-> TRUE, Y |-> 0, m |-> 0, d |-> 0])
    IN IF r.ok /\ r.Y >= 1 /\ r.d <= DaysIn(r.Y, r.m) THEN r
       ELSE [ok |-> FALSE, Y |-> 0, m |-> 0, d |-> 0]

\* The loop over the formats: the first format that parses wins.
FirstParse(date_part, formats) ==
    LET hit == {k \in 1..Len(formats) : strptime(date_part, formats[k]).ok}
    IN IF hit = {} THEN [ok |-> FALSE, Y |-> 0, m |-> 0, d |-> 0]
       ELSE strptime(date_part, formats[Min(hit)])

\* re.search(r"(\d{1,2}):(\d{2})", time_part): ok = FALSE when nothing matches.
TimeSearch(t) ==
    LET two == {i \in 1..(Len(t) - 4) :
                   /\ t[i] \in Digits /\ t[i + 1] \in Digits /\ t[i + 2] = ":"
                   /\ t[i + 3] \in Digits /\ t[i + 4] \in Digits}
        one == {i \in 1..(Len(t) - 3) :
                   /\ t[i] \in Digits /\ t[i + 1] = ":"
                   /\ t[i + 2] \in Digits /\ t[i + 3] \in Digits}
    IN IF two \cup one = {} THEN [ok |-> FALSE, hour |-> 0, minute |-> 0]
       ELSE LET i == Min(two \cup one)
            IN IF i \in two
               THEN [ok |-> TRUE, hour |-> IntOf(SubSeq(t, i, i + 1)),
                     minute |-> IntOf(SubSeq(t, i + 3, i + 4))]
               ELSE [ok |-> TRUE, hour |-> IntOf(SubSeq(t, i, i)),
                     minute |-> IntOf(SubSeq(t, i + 2, i + 3))]

NaT == [kind |-> "NaT", Y |-> 0, m |-> 0, d |-> 0, hour |-> 0, minute |-> 0]
ValueError == [kind |-> "raise", Y |-> 0, m |-> 0, d |-> 0, hour |-> 0, minute |-> 0]
Timestamp(Y, m, d, hour, minute) ==
    [kind |-> "ts", Y |-> Y, m |-> m, d |-> d, hour |-> hour, minute |-> minute]

\* dt.replace(hour=..., minute=...): ValueError outside 0..23 and 0..59.
ReplaceTime(dt, hour, minute) ==
    IF hour > 23 \/ minute > 59 THEN ValueError
    ELSE Timestamp(dt.Y, dt.m, dt.d, hour, minute)

ParseDateWith(s0, formats) ==
    IF isna(s0) THEN NaT
    ELSE LET s == Strip(s0)
             sp == Find(s, <<" ">>)
             date_part == IF sp # 0 THEN SubSeq(s, 1, sp - 1) ELSE s
             time_part == IF sp # 0 THEN From(s, sp + 1) ELSE None
             dt == FirstParse(date_part, formats)
         IN IF ~dt.ok THEN NaT
            ELSE IF time_part # None /\ time_part # <<>>
            THEN LET m == TimeSearch(time_part)
                 IN IF m.ok THEN ReplaceTime(dt, m.hour, m.minute)
                    ELSE Timestamp(dt.Y, dt.m, dt.d, 0, 0)
            ELSE Timestamp(dt.Y, dt.m, dt.d, 0, 0)

_parse_date_any(s0) == ParseDateWith(s0, _DATE_FORMATS)

(***************************************************************************)
(* load_one                                                                *)
(***************************************************************************)
col_station == <<"s", "t", "a", "t", "i", "o", "n">>
col_timestamp == <<"t", "i", "m", "e", "s", "t", "a", "m", "p">>
col_date == <<"d", "a", "t", "e">>
col_time == <<"t", "i", "m", "e">>
col_t_max_c == <<"t", "_", "m", "a", "x", "_", "c">>
col_t_min_c == <<"t", "_", "m", "i", "n", "_", "c">>
col_precip_24h_mm == <<"p", "r", "e", "c", "i", "p", "_", "2", "4", "h", "_", "m", "m">>
col_precip_type == <<"p", "r", "e", "c", "i", "p", "_", "t", "y", "p", "e">>
col_present_weather_code == <<"p", "r", "e", "s", "e", "n", "t", "_", "w", "e", "a", "t", "h", "e", "r", "_", "c", "o", "d", "e">>
col_notes == <<"n", "o", "t", "e", "s">>

KEEP_COLS ==
    <<col_station, col_timestamp, col_date, col_time, col_t_max_c, col_t_min_c,
      col_precip_24h_mm, col_precip_type, col_present_weather_code, col_notes>>

Range(f) == {f[x] : x \in DOMAIN f}

\* The columns whose cells stay str (or NaN); the others hold typed values.
StrCols == {col_station, col_precip_type, col_notes}

\* _read_header as one call: the loop from line i on, then the result.
RECURSIVE ScanFrom(_, _, _)
ScanFrom(lines, i, station_name) ==
    IF i > Len(lines) THEN [station_name |-> station_name, fields_line |-> None]
    ELSE LET step == ScanStep(station_name, lines[i])
         IN IF step.brk
            THEN [station_name |-> step.station_name, fields_line |-> step.fields_line]
            ELSE ScanFrom(lines, i + 1, step.station_name)

_read_header(path) ==
    LET sc == ScanFrom(path.lines, 1, None)
    IN HeaderResult(sc.station_name, sc.fields_line, path.stem)

\* A DataFrame: its column labels in order, its number of rows, and the
\* cells of each column.
DataFrame(cols, n, val) == [cols |-> cols, n |-> n, val |-> val]

IndexOf(seq, x) == Min({j \in 1..Len(seq) : seq[j] = x})

IsDataLine(line) == ~StartsWith(line, <<"#">>)

\* _read_rows_raw as one call: every line of the file that is no comment
\* gives one row; pd.DataFrame(rows, columns=cols, dtype=str).
_read_rows_raw(path, sep, cols) ==
    LET data == SelectSeq(path.lines, IsDataLine)
        rows == [k \in 1..Len(data) |-> RowOf(data[k], sep, Len(cols))]
    IN DataFrame(cols, Len(rows),
                 [c \in Range(cols) |-> [k \in 1..Len(rows) |-> rows[k][IndexOf(cols, c)]]])

\* raw.replace({v: np.nan for v in NA_TOKENS})
ReplaceNaTokens(df) ==
    DataFrame(df.cols, df.n,
              [c \in DOMAIN df.val |->
                  [k \in 1..df.n |-> IF df.val[c][k] \in NA_TOKENS THEN NaN ELSE df.val[c][k]]])

\* df[c] = values: a new column goes last, an existing one keeps its place.
SetColumn(df, c, values) ==
    DataFrame(IF c \in Range(df.cols) THEN df.cols ELSE Append(df.cols, c), df.n,
              [x \in DOMAIN df.val \cup {c} |-> IF x = c THEN values ELSE df.val[x]])

\* float(text) as pd.to_numeric reads one str cell with errors="coerce":
\* surrounding blanks, a sign, digits with an optional point.
ToNumeric(cell) ==
    IF isna(cell) THEN nan
    ELSE LET s == Strip(cell)
             signed == s # <<>> /\ s[1] \in {"-", "+"}
             body == IF signed THEN Tail(s) ELSE s
             dot == Find(body, <<".">>)
             ip == IF dot = 0 THEN body ELSE SubSeq(body, 1, dot - 1)
             fp == IF dot = 0 THEN <<>> ELSE From(body, dot + 1)
             digitsOnly == \A i \in 1..Len(ip \o fp) : (ip \o fp)[i] \in Digits
             mag == IntOf(ip) * Pow10(Len(fp)) + IntOf(fp)
         IN IF digitsOnly /\ ip \o fp # <<>>
            THEN Normal(IF signed /\ s[1] = "-" THEN 0 - mag ELSE mag, Len(fp))
            ELSE nan

\* df[c].str.replace(",", ".", regex=False) on one cell
StrReplaceComma(cell) == IF isna(cell) THEN cell ELSE Replace(cell, <<",">>, <<".">>)

\* The loop over the numeric-like fields (lines 184-189).
NumericLike == <<col_t_max_c, col_t_min_c, col_precip_24h_mm, col_present_weather_code>>

CoerceColumn(c, column) ==
    [k \in DOMAIN column |->
        IF c = col_precip_24h_mm THEN _parse_float_messy(column[k])
        ELSE ToNumeric(StrReplaceComma(column[k]))]

RECURSIVE CoerceNumeric(_, _)
CoerceNumeric(df, j) ==
    IF j > Len(NumericLike) THEN df
    ELSE LET c == NumericLike[j]
         IN IF c \in Range(df.cols)
            THEN CoerceNumeric(SetColumn(df, c, CoerceColumn(c, df.val[c])), j + 1)
            ELSE CoerceNumeric(df, j + 1)

\* df["timestamp"]: parsed from 'date', NaT in every row without it.
TimestampColumn(df) ==
    IF col_date \in Range(df.cols)
    THEN [k \in 1..df.n |-> _parse_date_any(df.val[col_date][k])]
    ELSE [k \in 1..df.n |-> NaT]

\* np.nan broadcast over a column of out.
Filler(c) == IF c \in StrCols THEN NaN ELSE nan

\* .dt.date and .dt.time of one timestamp
DateOf(ts) ==
    IF ts.kind = "NaT" THEN NaT
    ELSE [kind |-> "date", Y |-> ts.Y, m |-> ts.m, d |-> ts.d, hour |-> 0, minute |-> 0]
TimeOf(ts) ==
    IF ts.kind = "NaT" THEN NaT
    ELSE [kind |-> "time", Y |-> 0, m |-> 0, d |-> 0, hour |-> ts.hour, minute |-> ts.minute]

\* Lines 201-204: the seven columns taken from df or filled, then timestamp,
\* date and time appended.
Assemble(df) ==
    LET first == SelectSeq(KEEP_COLS, LAMBDA k : k \notin {col_timestamp, col_date, col_time})
        base == DataFrame(first, df.n,
                    [k \in Range(first) |->
                        IF k \in Range(df.cols) THEN df.val[k]
                        ELSE [r \in 1..df.n |-> Filler(k)]])
        ts == df.val[col_timestamp]
        o1 == SetColumn(base, col_timestamp, ts)
        o2 == SetColumn(o1, col_date, [r \in 1..df.n |-> DateOf(ts[r])])
    IN SetColumn(o2, col_time, [r \in 1..df.n |-> TimeOf(ts[r])])

\* A nullable Int64 value.
NA == [kind |-> "NA", num |-> 0]
Int64(n) == [kind |-> "int", num |-> n]
\* What a NaN cast to int64 gives where numpy still allows the cast: the
\* least int64, -2^63, which stands for no weather code.
IntMin == [kind |-> "int_min", num |-> 0]

\* Series.round(): to the nearest whole number, halves to the even one.
RoundHalfEven(x) ==
    LET p == Pow10(x.scale)
        q == x.num \div p
        r == x.num % p
    IN IF 2 * r > p THEN q + 1
       ELSE IF 2 * r < p THEN q
       ELSE IF q % 2 = 0 THEN q ELSE q + 1

\* pd.to_numeric(column).round().astype("Int64") on a column of df.
CodesOf(column) ==
    [k \in DOMAIN column |->
        IF column[k].kind = "nan" THEN NA ELSE Int64(RoundHalfEven(column[k]))]

\* out[[c for c in KEEP_COLS if c in out.columns]]
Reorder(out) ==
    DataFrame(SelectSeq(KEEP_COLS, LAMBDA c : c \in Range(out.cols)), out.n, out.val)

(***************************************************************************)
(* load_all                                                                *)
(***************************************************************************)
\* The rows of a frame, each a function from the column labels to values.
RowsOf(frame) == [r \in 1..frame.n |-> [c \in Range(frame.cols) |-> frame.val[c][r]]]

RECURSIVE Flatten(_)
Flatten(seqs) == IF seqs = <<>> THEN <<>> ELSE Head(seqs) \o Flatten(Tail(seqs))

\* pd.concat(frames, ignore_index=True): the rows of the frames one after
\* the other, labelled 1, 2, ... (src is that label, which sort_values
\* carries along and reset_index drops from the table).
Concat(frames) ==
    LET rows == Flatten([f \in 1..Len(frames) |-> RowsOf(frames[f])])
    IN [i \in 1..Len(rows) |-> [src |-> i, row |-> rows[i]]]

HasTimestamp(r) == r.row[col_timestamp].kind # "NaT"

\* A plausible slip: no row is dropped.
DropNaNothing(rows) == rows

\* dropna(subset=["timestamp"])
DropNa(rows) == SelectSeq(rows, HasTimestamp)

\* ord() of the characters station labels are written with.
Ord(c) ==
    CASE c = "R" -> 82 [] c = "L" -> 76 [] c = "f" -> 102
      [] c \in Digits -> 48 + DigitVal(c)

\* Python's a < b on two str.
RECURSIVE StrLess(_, _)
StrLess(a, b) ==
    IF b = <<>> THEN FALSE
    ELSE IF a = <<>> THEN TRUE
    ELSE IF Head(a) = Head(b) THEN StrLess(Tail(a), Tail(b))
    ELSE Ord(Head(a)) < Ord(Head(b))

\* a < b on two timestamps; NaT sorts last (na_position="last").
TsTuple(t) == <<t.Y, t.m, t.d, t.hour, t.minute>>
RECURSIVE TupleLess(_, _)
TupleLess(a, b) ==
    IF a = <<>> THEN FALSE
    ELSE IF Head(a) = Head(b) THEN TupleLess(Tail(a), Tail(b))
    ELSE Head(a) < Head(b)
TsLess(a, b) ==
    IF a.kind = "NaT" THEN FALSE
    ELSE IF b.kind = "NaT" THEN TRUE
    ELSE TupleLess(TsTuple(a), TsTuple(b))

\* The sort key (station, timestamp) of x is less than that of y.
KeyLess(x, y) ==
    \/ StrLess(x.row[col_station], y.row[col_station])
    \/ /\ x.row[col_station] = y.row[col_station]
       /\ TsLess(x.row[col_timestamp], y.row[col_timestamp])

\* A plausible slip: a sort that puts a row before the rows of equal key.
RECURSIVE SortUnstable(_)
SortUnstable(rows) ==
    IF rows = <<>> THEN <<>>
    ELSE LET sorted == SortUnstable(SubSeq(rows, 1, Len(rows) - 1))
             x == rows[Len(rows)]
             before == {j \in 0..Len(sorted) : \A i \in 1..j : KeyLess(sorted[i], x)}
             at == Max(before)
         IN SubSeq(sorted, 1, at) \o <<x>> \o SubSeq(sorted, at + 1, Len(sorted))

\* sort_values on two keys is a lexsort, which is stable: a row goes after
\* every row already placed whose key is not greater.
RECURSIVE SortValues(_)
SortValues(rows) ==
    IF rows = <<>> THEN <<>>
    ELSE LET sorted == SortValues(SubSeq(rows, 1, Len(rows) - 1))
             x == rows[Len(rows)]
             before == {j \in 0..Len(sorted) : \A i \in 1..j : ~KeyLess(x, sorted[i])}
             at == Max(before)
         IN SubSeq(sorted, 1, at) \o <<x>> \o SubSeq(sorted, at + 1, Len(sorted))

\* Line 234: dropna, sort_values, reset_index.
Merge(rows) == SortValues(DropNa(rows))

(***************************************************************************)
(* Specification SpecSep: _read_header's handling of one "# fields=" line  *)
(* (lines 83-89): the line is stripped, the separator detected, the column *)
(* names split.                                                            *)
(***************************************************************************)
PayloadChars == {TAB, "|", ";", ",", "a", " "}

EmptyFrame == DataFrame(<<>>, 0, <<>>)
loadIdle ==
    /\ lo_pc = "idle" /\ lo_header = [kind |-> "none"]
    /\ lo_df = EmptyFrame /\ lo_out = EmptyFrame
    /\ la_paths = <<>> /\ la_i = 0 /\ la_frames = <<>> /\ la_concat = <<>>
    /\ la_merged = <<>> /\ la_pc = "idle" /\ la_error = ""
sdIdle == sd_line = <<>> /\ sd_sep = <<>> /\ sd_cols = <<>> /\ sd_pc = "idle"
pdIdle == pd_s = <<>> /\ pd_result = NaT /\ pd_pc = "idle"
pfIdle == pf_x = <<>> /\ pf_result = nan /\ pf_pc = "idle"
rrIdle == rr_sep = <<>> /\ rr_cols = <<>> /\ rr_line = None /\ rr_rows = <<>>
hdIdle == /\ hd_lines = <<>> /\ hd_i = 0 /\ hd_station = None /\ hd_fields = None
          /\ hd_pc = "idle" /\ hd_result = [kind |-> "none"]

InitSep ==
    /\ sd_line \in {hash_fields \o p : p \in SeqUpTo(PayloadChars, MaxPayload)}
    /\ sd_sep = <<>> /\ sd_cols = <<>> /\ sd_pc = "start"
    /\ hdIdle /\ rrIdle /\ pfIdle /\ pdIdle /\ loadIdle

DetectSeparator ==
    /\ sd_pc = "start"
    /\ StartsWith(sd_line, hash_fields)
    /\ LET fields_line == Strip(sd_line)
           sep == _detect_separator(fields_line)
       IN /\ sd_sep' = sep
          /\ sd_cols' = HeaderCols(fields_line, sep)
    /\ sd_pc' = "done"
    /\ UNCHANGED <<sd_line, notSd>>

NextSep == DetectSeparator

SpecSep == InitSep /\ [][NextSep]_vars

(***************************************************************************)
(* Specification SpecHeader: the scan loop of _read_header over one file.  *)
(***************************************************************************)
\* path.stem of the file whose header is scanned.
Stem == <<"f", "1">>

ln_station_R == <<"#", " ">> \o kw_station_name \o <<"R">>
ln_station_L == <<"#", " ">> \o kw_station_name \o <<"L">>
ln_station_empty == <<"#", " ">> \o kw_station_name
ln_fields_semi == hash_fields \o <<"a", ";", "b">>
ln_fields_tab == hash_fields \o <<"a", TAB, "b", ",", "c">>
ln_fields_nospace == <<"#">> \o kw_fields \o <<"a">>
ln_comment == <<"#", " ", "x">>
ln_data == <<"1", ";", "2">>

HeaderLines == {ln_station_R, ln_station_L, ln_station_empty, ln_fields_semi,
                ln_fields_tab, ln_fields_nospace, ln_comment, ln_data}

InitHeader ==
    /\ hd_lines \in SeqUpTo(HeaderLines, MaxLines)
    /\ hd_i = 1 /\ hd_station = None /\ hd_fields = None
    /\ hd_pc = "scan" /\ hd_result = [kind |-> "none"]
    /\ sdIdle /\ rrIdle /\ pfIdle /\ pdIdle /\ loadIdle

\* One iteration of the for loop over the file's lines.
ScanLine ==
    /\ hd_pc = "scan"
    /\ hd_i <= Len(hd_lines)
    /\ LET step == ScanStep(hd_station, hd_lines[hd_i])
       IN /\ hd_station' = step.station_name
          /\ hd_fields' = IF step.fields_line # None THEN step.fields_line ELSE hd_fields
          /\ hd_pc' = IF step.brk THEN "after" ELSE "scan"
    /\ hd_i' = hd_i + 1
    /\ UNCHANGED <<hd_lines, hd_result, notHd>>

\* The file is exhausted: the loop ends.
EndOfFile ==
    /\ hd_pc = "scan"
    /\ hd_i > Len(hd_lines)
    /\ hd_pc' = "after"
    /\ UNCHANGED <<hd_lines, hd_i, hd_station, hd_fields, hd_result, notHd>>

\* if fields_line is None: raise ValueError(...)
RaiseMissingFields ==
    /\ hd_pc = "after"
    /\ hd_fields = None
    /\ hd_result' = HeaderResult(hd_station, hd_fields, Stem)
    /\ hd_pc' = "raised"
    /\ UNCHANGED <<hd_lines, hd_i, hd_station, hd_fields, notHd>>

\* return station_name or path.stem, sep, cols
ReturnHeader ==
    /\ hd_pc = "after"
    /\ hd_fields # None
    /\ hd_result' = HeaderResult(hd_station, hd_fields, Stem)
    /\ hd_pc' = "returned"
    /\ UNCHANGED <<hd_lines, hd_i, hd_station, hd_fields, notHd>>

NextHeader == ScanLine \/ EndOfFile \/ RaiseMissingFields \/ ReturnHeader

SpecHeader == InitHeader /\ [][NextHeader]_vars

(***************************************************************************)
(* Properties of the header inspector.                                     *)
(***************************************************************************)
Chars(s) == {s[i] : i \in 1..Len(s)}

\* The separator the documented rule assigns to a payload.
SepByRule(p) ==
    IF TAB \in Chars(p) THEN <<TAB>>
    ELSE IF "|" \in Chars(p) THEN <<"|">>
    ELSE IF ";" \in Chars(p) THEN <<";">>
    ELSE <<",">>

\* The text after "fields=" in the header line as written in the file.
RawPayload == SubSeq(sd_line, Len(hash_fields) + 1, Len(sd_line))

\* C8 (as stated): the separator is TAB if the payload contains a TAB
\* anywhere, otherwise the first of | ; , that occurs in it, otherwise the comma.
C8_AsStated == sd_pc = "done" => sd_sep = SepByRule(RawPayload)

\* C8 (amended): the same rule applied to the payload after its leading and
\* trailing whitespace has been trimmed.
C8_TrimmedPayload == sd_pc = "done" => sd_sep = SepByRule(Strip(RawPayload))

\* A payload with both a semicolon and a comma (no TAB, no bar) was given
\* the semicolon.
C8_Witness ==
    /\ sd_pc = "done"
    /\ {";", ","} \subseteq Chars(RawPayload)
    /\ TAB \notin Chars(RawPayload) /\ "|" \notin Chars(RawPayload)
    /\ sd_sep = <<";">>

\* The length of the leading run of lines that start with '#'.
HashRun(lines) ==
    Max({k \in 0..Len(lines) :
            \A j \in 1..k : Len(lines[j]) > 0 /\ lines[j][1] = "#"})

\* The first fields declaration within the leading run, 0 if there is none.
FirstFields(lines) ==
    LET decl == {k \in 1..HashRun(lines) : StartsWith(lines[k], hash_fields)}
    IN IF decl = {} THEN 0 ELSE Min(decl)

\* The station label the lines 1..k declare: the text after "station_name="
\* of the last of them that has one, the file's stem otherwise.
StationOfPrefix(lines, k) ==
    LET decl == {j \in 1..k : Contains(lines[j], kw_station_name)}
        last == Strip(lines[Max(decl)])
        at == Find(last, kw_station_name)
        rest == From(last, at + Len(kw_station_name))
        nxt == Find(rest, kw_station_name)
        label == IF nxt = 0 THEN rest ELSE SubSeq(rest, 1, nxt - 1)
    IN IF decl = {} THEN Stem
       ELSE IF label = <<>> THEN Stem ELSE label

\* C3: the scan covers only the leading run of '#' lines; without a fields
\* declaration in that run the call raises and returns no header; with one,
\* the scan never reads past it and the header returned is the one the
\* lines up to and including it determine.
C3_HeaderScan ==
    LET k == FirstFields(hd_lines)
    IN /\ hd_i <= HashRun(hd_lines) + 2
       /\ (k # 0 => hd_i <= k + 1)
       /\ (hd_pc = "raised" => k = 0 /\ hd_result.kind = "raise")
       /\ (hd_pc = "returned" =>
              /\ k # 0
              /\ hd_result.kind = "return"
              /\ hd_result.station = StationOfPrefix(hd_lines, k)
              /\ hd_result.sep = _detect_separator(Strip(hd_lines[k]))
              /\ hd_result.cols = HeaderCols(Strip(hd_lines[k]), hd_result.sep))

\* A header was returned although a later line carries a station_name=
\* directive, and the label is still the file's stem.
C3_Witness ==
    /\ hd_pc = "returned"
    /\ \E j \in (FirstFields(hd_lines) + 1)..Len(hd_lines) :
           Contains(hd_lines[j], kw_station_name)
    /\ hd_result.station = Stem

(***************************************************************************)
(* Specification SpecRows: the loop of _read_rows_raw.  The separator and  *)
(* the declared columns come from the header; the lines of the body are    *)
(* read one after the other.                                               *)
(***************************************************************************)
RowChars == {"1", ",", ";"}
RowLines == SeqUpTo(RowChars, MaxLineLen) \cup {<<"#">>, <<"#", "1", ",", "1">>}
ColNames == <<<<"a">>, <<"b">>, <<"c">>, <<"d">>, <<"e">>>>

InitRows ==
    /\ rr_sep \in {<<",">>, <<";">>}
    /\ rr_cols \in {SubSeq(ColNames, 1, n) : n \in 1..MaxCols}
    /\ rr_line = None
    /\ rr_rows = <<>>
    /\ sdIdle /\ hdIdle /\ pfIdle /\ pdIdle /\ loadIdle

\* if line.startswith("#"): continue
SkipComment(line) ==
    /\ Len(rr_rows) < MaxRows
    /\ StartsWith(line, <<"#">>)
    /\ rr_line' = line
    /\ UNCHANGED <<rr_sep, rr_cols, rr_rows, notRr>>

\* The rest of the loop body: rewrite, split, fold or pad, append.
ReadRow(line) ==
    /\ Len(rr_rows) < MaxRows
    /\ ~StartsWith(line, <<"#">>)
    /\ rr_line' = line
    /\ rr_rows' = Append(rr_rows, RowOf(line, rr_sep, Len(rr_cols)))
    /\ UNCHANGED <<rr_sep, rr_cols, notRr>>

NextRows == \E line \in RowLines : SkipComment(line) \/ ReadRow(line)

SpecRows == InitRows /\ [][NextRows]_vars

(***************************************************************************)
(* Properties of the row tokenizer.                                        *)
(***************************************************************************)
\* The last line read was a data line and its row is the last of rr_rows.
RowJustRead == rr_line # None /\ ~StartsWith(rr_line, <<"#">>)

\* The tokens of the last line read, before folding or padding.
LastTokens == Split(Rewritten(rr_line, rr_sep), rr_sep, -1)
LastRow == rr_rows[Len(rr_rows)]

\* C6: every row has exactly as many tokens as columns were declared: a
\* line with fewer tokens is right-padded with empty strings, one with as
\* many is kept as split.
C6_RowWidth ==
    LET n == Len(rr_cols)
    IN /\ \A r \in 1..Len(rr_rows) : Len(rr_rows[r]) = n
       /\ (RowJustRead /\ Len(LastTokens) <= n =>
              /\ SubSeq(LastRow, 1, Len(LastTokens)) = LastTokens
              /\ \A j \in (Len(LastTokens) + 1)..n : LastRow[j] = <<>>)

\* The empty line was read against two or more declared columns.
C6_Witness ==
    /\ RowJustRead /\ rr_line = <<>>
    /\ Len(rr_cols) >= 2
    /\ Len(rr_rows) = 1

\* C7: when a line splits into more tokens than columns, the first N-1
\* tokens are kept, the last token is the remaining ones joined by the
\* separator, and joining the row gives the (rewritten) line back.
C7_FoldLossless ==
    LET n == Len(rr_cols)
    IN RowJustRead /\ Len(LastTokens) > n =>
          /\ SubSeq(LastRow, 1, n - 1) = SubSeq(LastTokens, 1, n - 1)
          /\ LastRow[n] = Join(SubSeq(LastTokens, n, Len(LastTokens)), rr_sep)
          /\ Join(LastRow, rr_sep) = Rewritten(rr_line, rr_sep)

\* A line with N+2 tokens was folded into N >= 2 columns.
C7_Witness ==
    /\ RowJustRead
    /\ Len(rr_cols) >= 2
    /\ Len(LastTokens) = Len(rr_cols) + 2
    /\ Len(LastRow) = Len(rr_cols)

(***************************************************************************)
(* Specification SpecFloat: _parse_float_messy applied to one cell.        *)
(***************************************************************************)
FloatChars == {"9", ".", ",", "-", " ", "m"}
FloatSamples ==
    {NaN, <<"N", "A">>, <<EM_DASH>>,
     <<"n", "u", "l", "l", "e">>, <<"N", "U", "L", "L", "E">>, <<"N", "u", "l", "l", "e">>,
     <<"1", "2", ",", "5", " ", "m", "m">>, <<"7", ".", "3">>, <<"3", " ", "M", "M">>,
     <<"1", ",", "2", "3", "4", ".", "5">>, <<"1", " ", "m", "m", "2">>}

InitFloat ==
    /\ pf_x \in FloatSamples \cup SeqUpTo(FloatChars, MaxCell)
    /\ pf_result = nan
    /\ pf_pc = "start"
    /\ sdIdle /\ hdIdle /\ rrIdle /\ pdIdle /\ loadIdle

ParseFloatMessy ==
    /\ pf_pc = "start"
    /\ pf_result' = _parse_float_messy(pf_x)
    /\ pf_pc' = "done"
    /\ UNCHANGED <<pf_x, notPf>>

NextFloat == ParseFloatMessy

SpecFloat == InitFloat /\ [][NextFloat]_vars

(***************************************************************************)
(* Properties of the messy-float parser.                                   *)
(***************************************************************************)
\* The cell as written, trimmed, with its decimal commas as points.
WrittenCell == Replace(Strip(pf_x), <<",">>, <<".">>)

\* The text the number was read from.
MatchedText ==
    LET t == Unitless(Strip(pf_x))
        m == NumeralSearch(t)
    IN SubSeq(t, m.lo, m.hi)

\* The matched text stands in the cell as a whole numeral: it is written
\* there, and no digit or decimal point continues it on either side.
WholeNumeralAt(w, i, text) ==
    /\ SubSeq(w, i, i + Len(text) - 1) = text
    /\ (i > 1 => w[i - 1] \notin Digits \cup {"."})
    /\ LET j == i + Len(text) - 1
       IN /\ (j < Len(w) => w[j + 1] \notin Digits)
          /\ ~(j + 2 <= Len(w) /\ w[j + 1] = "." /\ w[j + 2] \in Digits)

\* C9: a number returned is the value of a whole numeral written in the
\* cell, never of a fragment of a longer one.
C9_NoFragment ==
    (pf_pc = "done" /\ pf_result.kind = "float" /\ Lower(Strip(pf_x)) \notin WORD_ZERO) =>
        \E i \in 1..(Len(WrittenCell) - Len(MatchedText) + 1) :
            WholeNumeralAt(WrittenCell, i, MatchedText)

(***************************************************************************)
(* Specification SpecDate: _parse_date_any applied to one cell.  The date  *)
(* portion is three runs of digits around one of the separators, the time  *)
(* portion one of a few texts.                                             *)
(***************************************************************************)
DateFields == {<<"4">>, <<"0", "2">>, <<"0", "4">>, <<"1", "2">>, <<"1", "3">>, <<"2", "9">>, <<"3", "0">>, <<"3", "1">>, <<"3", "2">>, <<"0", "0">>, <<"1", "9", "2", "4">>, <<"1", "9", "2", "5">>}
DateSeps == {"-", ".", "/"}
TimeParts == {<<"1", "4", ":", "3", "0">>, <<"9", ":", "0", "5">>, <<"2", "5", ":", "0", "0">>, <<"1", "2", ":", "6", "0">>, <<"x">>, <<"1", "2", "3", ":", "4", "5", "6">>}
OtherDateCells == {NaN, <<>>, <<"n", "o", "t", "-", "a", "-", "d", "a", "t", "e">>, <<"0", "4", "-", "0", "3", ".", "1", "9", "2", "5">>, <<"1", "9", "2", "5", "-", "0", "3", "-", "0", "4", " ", " ", "7", ":", "1", "5", "h">>}

DateTexts ==
    {a \o <<p>> \o b \o <<p>> \o c : a \in DateFields, b \in DateFields, c \in DateFields,
                                     p \in DateSeps}

InitDate ==
    /\ pd_s \in DateTexts \cup {dt \o <<" ">> \o t : dt \in DateTexts, t \in TimeParts}
                \cup OtherDateCells
    /\ pd_result = NaT
    /\ pd_pc = "start"
    /\ sdIdle /\ hdIdle /\ rrIdle /\ pfIdle /\ loadIdle

ParseDateAny ==
    /\ pd_pc = "start"
    /\ pd_result' = _parse_date_any(pd_s)
    /\ pd_pc' = "done"
    /\ UNCHANGED <<pd_s, notPd>>

NextDate == ParseDateAny

SpecDate == InitDate /\ [][NextDate]_vars

(***************************************************************************)
(* Properties of the date parser.                                          *)
(***************************************************************************)
\* C2: every value-normalisation function is total: for every cell it
\* returns a typed value or the missing value and never raises.
C2_Total == pd_pc = "done" => pd_result.kind \in {"ts", "NaT"}

\* The date portion of the cell: the text before its first space.
DatePortion ==
    LET s == Strip(pd_s)
    IN IF Contains(s, <<" ">>) THEN SubSeq(s, 1, Find(s, <<" ">>) - 1) ELSE s

\* The calendar day (Y, m, d) exists.
IsDay(Y, m, d) == Y >= 1 /\ m \in 1..12 /\ d >= 1 /\ d <= DaysIn(Y, m)

AllDigits(t) == t # <<>> /\ \A i \in 1..Len(t) : t[i] \in Digits

\* The date portion reads as a day of the calendar under the k-th format of
\* the documented list, and which day.
Reading(k) ==
    LET sepOf == <<"-", ".", "/", "-", "-", ".", "/">>
        p == Split(DatePortion, <<sepOf[k]>>, -1)
        yearFirst == k \in {1, 3, 6}
        monthFirst == k \in {5, 7}
        yt == IF yearFirst THEN p[1] ELSE p[3]
        mt == IF yearFirst THEN p[2] ELSE IF monthFirst THEN p[1] ELSE p[2]
        dt == IF yearFirst THEN p[3] ELSE IF monthFirst THEN p[2] ELSE p[1]
    IN IF /\ Len(p) = 3
          /\ AllDigits(p[1]) /\ AllDigits(p[2]) /\ AllDigits(p[3])
          /\ Len(yt) = 4 /\ Len(mt) <= 2 /\ Len(dt) <= 2
          /\ IsDay(IntOf(yt), IntOf(mt), IntOf(dt))
       THEN [ok |-> TRUE, Y |-> IntOf(yt), m |-> IntOf(mt), d |-> IntOf(dt)]
       ELSE [ok |-> FALSE, Y |-> 0, m |-> 0, d |-> 0]

Readable == {k \in 1..7 : Reading(k).ok}

\* The result carries the day the first readable format gives.
DateIsFirstReading ==
    LET r == Reading(Min(Readable))
    IN pd_result.Y = r.Y /\ pd_result.m = r.m /\ pd_result.d = r.d

\* C10: the date portion is tried against the seven formats in the fixed
\* order and the date of the first format that matches is returned (so a
\* dash-separated A-B-YYYY text valid both ways is read day-first); the
\* result is missing exactly when no format matches.
C10_FirstFormatWins ==
    (pd_pc = "done" /\ ~isna(pd_s)) =>
        /\ (pd_result.kind = "NaT" <=> Readable = {})
        /\ (Readable # {} => pd_result.kind = "ts" /\ DateIsFirstReading)

\* The same, for the calls that return: it holds, so the date formats alone
\* never break C10.
DateOrderWhenReturned ==
    (pd_pc = "done" /\ ~isna(pd_s) /\ pd_result.kind # "raise") =>
        /\ (pd_result.kind = "NaT" <=> Readable = {})
        /\ (Readable # {} => pd_result.kind = "ts" /\ DateIsFirstReading)

\* A text valid under both dash-separated year-last formats was read.
AmbiguousDashRead ==
    /\ pd_pc = "done" /\ ~isna(pd_s)
    /\ {4, 5} \subseteq Readable /\ Reading(4).d # Reading(5).d
    /\ pd_result.kind = "ts" /\ pd_result.d = Reading(4).d

(***************************************************************************)
(* Specification Spec: load_all over a list of files, each loaded by       *)
(* load_one.                                                               *)
(***************************************************************************)
date_1925_01_02 == <<"1", "9", "2", "5", "-", "0", "1", "-", "0", "2">>
date_01_01_1925 == <<"0", "1", ".", "0", "1", ".", "1", "9", "2", "5">>
date_with_time == <<"0", "2", "-", "0", "1", "-", "1", "9", "2", "5", " ", "1", "4", ":", "3", "0">>
col_wind == <<"w", "i", "n", "d">>

FieldsLine(names, sep) == hash_fields \o Join(names, sep)

\* Files of one station with the columns date;present_weather_code;notes:
\* every list of up to MaxFileRows of these rows.
TieRows ==
    { Join(<<date_1925_01_02, <<"7">>, <<"n">>>>, <<";">>),
      Join(<<date_1925_01_02, <<>>, <<"k">>>>, <<";">>) }
TieFiles ==
    { <<ln_station_R, FieldsLine(<<col_date, col_present_weather_code, col_notes>>, <<";">>)>>
         \o rows : rows \in SeqUpTo(TieRows, MaxFileRows) }

\* TAB-separated, no station_name, no present_weather_code column.
file_tab ==
    << FieldsLine(<<col_date, col_t_max_c>>, <<TAB>>),
       Join(<<date_with_time, <<"1", ",", "5">>>>, <<TAB>>) >>

\* Comma-separated with a decimal comma, a comment among the rows, and a row
\* that is a single unparseable token.
file_comma ==
    << ln_station_R, ln_comment,
       FieldsLine(<<col_present_weather_code, col_precip_24h_mm, col_date>>, <<",">>),
       <<",", "1", "2", ",", "5", " ", "m", "m", ",", "0", "1", ".", "0", "1", ".", "1", "9", "2", "5">>,
       ln_comment,
       <<"x">> >>

\* Bar-separated, neither date nor present_weather_code, an undeclared
\* column and a row that overflows.
file_bar ==
    << FieldsLine(<<col_t_min_c, col_wind>>, <<"|">>),
       <<"-", "3", ",", "5", "|", "N", "|", "E">> >>

\* Another station, an earlier day, a weather code with a decimal comma.
file_L ==
    << ln_station_L, FieldsLine(<<col_date, col_present_weather_code>>, <<";">>),
       Join(<<date_01_01_1925, <<"2", ",", "5">>>>, <<";">>) >>

\* No "# fields=" line before the data.
file_no_header == << ln_station_R, ln_data >>

FileSet == TieFiles \cup {file_tab, file_comma, file_bar, file_L, file_no_header}

DigitChar(i) ==
    CASE i = 1 -> "1" [] i = 2 -> "2" [] i = 3 -> "3" [] i = 4 -> "4" [] i = 5 -> "5"

\* The i-th path given to load_all.
Path(i) == [stem |-> <<"f", DigitChar(i)>>, lines |-> la_paths[i]]

Init ==
    /\ la_paths \in SeqUpTo(FileSet, MaxFiles)
    /\ la_i = 1 /\ la_frames = <<>> /\ la_concat = <<>> /\ la_merged = <<>>
    /\ la_pc = "load" /\ la_error = ""
    /\ lo_pc = "idle" /\ lo_header = [kind |-> "none"]
    /\ lo_df = EmptyFrame /\ lo_out = EmptyFrame
    /\ sdIdle /\ hdIdle /\ rrIdle /\ pfIdle /\ pdIdle

Loading == la_pc = "load" /\ la_i <= Len(la_paths)

\* load_one, line 179: the header is read.
LoadHeader ==
    /\ Loading /\ lo_pc = "idle"
    /\ _read_header(Path(la_i)).kind = "return"
    /\ lo_header' = _read_header(Path(la_i))
    /\ lo_pc' = "rows"
    /\ UNCHANGED <<lo_df, lo_out, laVars, notLoad>>

\* load_one, line 179: _read_header raises, and so do load_one and load_all.
LoadHeaderRaises ==
    /\ Loading /\ lo_pc = "idle"
    /\ _read_header(Path(la_i)).kind = "raise"
    /\ la_pc' = "raised"
    /\ la_error' = "ValueError: Missing '# fields=' header"
    /\ UNCHANGED <<loVars, la_paths, la_i, la_frames, la_concat, la_merged, notLoad>>

\* Lines 180-181: the rows are read and the missing tokens replaced.
LoadRows ==
    /\ Loading /\ lo_pc = "rows"
    /\ lo_df' = ReplaceNaTokens(_read_rows_raw(Path(la_i), lo_header.sep, lo_header.cols))
    /\ lo_pc' = "coerce"
    /\ UNCHANGED <<lo_header, lo_out, laVars, notLoad>>

\* Lines 184-198: the numeric-like columns, the timestamp, the station.
\* _parse_date_any raising ends load_one and load_all.
Coerce ==
    /\ Loading /\ lo_pc = "coerce"
    /\ LET df == CoerceNumeric(lo_df, 1)
           ts == TimestampColumn(df)
       IN IF \E r \in 1..df.n : ts[r].kind = "raise"
          THEN /\ la_pc' = "raised"
               /\ la_error' = "ValueError: hour or minute out of range"
               /\ UNCHANGED <<lo_pc, lo_df>>
          ELSE /\ lo_df' = SetColumn(SetColumn(df, col_timestamp, ts), col_station,
                                     [r \in 1..df.n |-> lo_header.station])
               /\ lo_pc' = "assemble"
               /\ UNCHANGED <<la_pc, la_error>>
    /\ UNCHANGED <<lo_header, lo_out, la_paths, la_i, la_frames, la_concat, la_merged, notLoad>>

\* Lines 201-204.
AssembleOut ==
    /\ Loading /\ lo_pc = "assemble"
    /\ lo_out' = Assemble(lo_df)
    /\ lo_pc' = "codes"
    /\ UNCHANGED <<lo_header, lo_df, laVars, notLoad>>

\* Lines 207-208 when the file declares present_weather_code.
CastCodes ==
    /\ Loading /\ lo_pc = "codes"
    /\ col_present_weather_code \in Range(lo_df.cols)
    /\ lo_out' = SetColumn(lo_out, col_present_weather_code,
                           CodesOf(lo_df.val[col_present_weather_code]))
    /\ lo_pc' = "return"
    /\ UNCHANGED <<lo_header, lo_df, laVars, notLoad>>

\* Lines 207-208 when it does not: df.get gives None, pd.to_numeric(None)
\* the scalar NaN, and a numpy scalar's astype("Int64") is numpy's: numpy
\* knows no dtype "Int64" and raises TypeError ...
CastCodesTypeError ==
    /\ Loading /\ lo_pc = "codes"
    /\ col_present_weather_code \notin Range(lo_df.cols)
    /\ la_pc' = "raised"
    /\ la_error' = "TypeError: data type 'Int64' not understood"
    /\ UNCHANGED <<loVars, la_paths, la_i, la_frames, la_concat, la_merged, notLoad>>

\* ... or, where numpy still reads "Int64" as int64, casts the NaN to the
\* least int64, which is then written in every row.
CastCodesNaNToInt ==
    /\ Loading /\ lo_pc = "codes"
    /\ col_present_weather_code \notin Range(lo_df.cols)
    /\ lo_out' = SetColumn(lo_out, col_present_weather_code, [r \in 1..lo_out.n |-> IntMin])
    /\ lo_pc' = "return"
    /\ UNCHANGED <<lo_header, lo_df, laVars, notLoad>>

\* Lines 211-213 and 232: the columns are reordered and the frame returned.
ReturnFrame ==
    /\ Loading /\ lo_pc = "return"
    /\ la_frames' = Append(la_frames, Reorder(lo_out))
    /\ la_i' = la_i + 1
    /\ lo_pc' = "idle" /\ lo_header' = [kind |-> "none"]
    /\ lo_df' = EmptyFrame /\ lo_out' = EmptyFrame
    /\ UNCHANGED <<la_paths, la_concat, la_merged, la_pc, la_error, notLoad>>

\* Line 233, with at least one frame.
ConcatFrames ==
    /\ la_pc = "load" /\ la_i > Len(la_paths)
    /\ la_frames # <<>>
    /\ la_concat' = Concat(la_frames)
    /\ la_pc' = "sort"
    /\ UNCHANGED <<loVars, la_paths, la_i, la_frames, la_merged, la_error, notLoad>>

\* Line 233, with no frame: pd.concat raises.
ConcatRaises ==
    /\ la_pc = "load" /\ la_i > Len(la_paths)
    /\ la_frames = <<>>
    /\ la_pc' = "raised"
    /\ la_error' = "ValueError: No objects to concatenate"
    /\ UNCHANGED <<loVars, la_paths, la_i, la_frames, la_concat, la_merged, notLoad>>

\* Lines 234-235.
DropSortReturn ==
    /\ la_pc = "sort"
    /\ la_merged' = Merge(la_concat)
    /\ la_pc' = "done"
    /\ UNCHANGED <<loVars, la_paths, la_i, la_frames, la_concat, la_error, notLoad>>

Next ==
    \/ LoadHeader \/ LoadHeaderRaises \/ LoadRows \/ Coerce \/ AssembleOut
    \/ CastCodes \/ CastCodesTypeError \/ CastCodesNaNToInt \/ ReturnFrame
    \/ ConcatFrames \/ ConcatRaises \/ DropSortReturn

Spec == Init /\ [][Next]_vars

(***************************************************************************)
(* Properties of load_one and load_all.                                    *)
(***************************************************************************)
\* The value is the missing value of column c.
Missing(c, v) == IF c \in StrCols THEN v = NaN ELSE v.kind \in {"nan", "NA", "NaT"}

\* The columns the k-th file declares.
Declared(k) == Range(_read_header(Path(k)).cols)

\* The canonical columns that are read from a raw column of the same name.
RawCanonical ==
    {col_t_max_c, col_t_min_c, col_precip_24h_mm, col_precip_type,
     col_present_weather_code, col_notes}

\* The canonical columns of frame k that its file gave no source for.
Unsourced(k) ==
    (RawCanonical \ Declared(k))
        \cup (IF col_date \in Declared(k) THEN {} ELSE {col_timestamp, col_date, col_time})

FrameIsCanonical(k) ==
    LET f == la_frames[k]
    IN /\ f.cols = KEEP_COLS
       /\ \A c \in Unsourced(k) : \A r \in 1..f.n : Missing(c, f.val[c][r])

\* C1: load_one of a file with a valid "# fields=" header completes without
\* error, whatever columns it declares, and returns exactly the ten
\* canonical columns in order, every column the file did not declare
\* missing in every row.
C1_TenColumns ==
    /\ (la_pc = "raised" /\ la_i <= Len(la_paths) => FirstFields(la_paths[la_i]) = 0)
    /\ \A k \in 1..Len(la_frames) : FrameIsCanonical(k)

\* The same for the files that declare present_weather_code: it holds.
TenColumnsWhenCodeDeclared ==
    /\ (la_pc = "raised" /\ la_i <= Len(la_paths)
            /\ FirstFields(la_paths[la_i]) # 0
          => col_present_weather_code \notin Declared(la_i))
    /\ \A k \in 1..Len(la_frames) :
          col_present_weather_code \in Declared(k) => FrameIsCanonical(k)

KeyOf(x) == <<x.row[col_station], x.row[col_timestamp]>>

\* C4: the table load_all returns has no record without a timestamp, and
\* no record's key (station, timestamp) is greater than the next one's.
C4_NoNaTSorted ==
    la_pc = "done" =>
        /\ \A i \in 1..Len(la_merged) : la_merged[i].row[col_timestamp].kind = "ts"
        /\ \A i \in 1..(Len(la_merged) - 1) :
              LET a == la_merged[i].row
                  b == la_merged[i + 1].row
              IN \/ StrLess(a[col_station], b[col_station])
                 \/ /\ a[col_station] = b[col_station]
                    /\ ~TsLess(b[col_timestamp], a[col_timestamp])

\* A table was returned for which a record without timestamp had to be
\* dropped and two records of one station put in the other order.
C4_Witness ==
    /\ la_pc = "done"
    /\ \A k \in 1..Len(la_paths) : col_present_weather_code \in Declared(k)
    /\ \E j \in 1..Len(la_concat) : ~HasTimestamp(la_concat[j])
    /\ \E i, j \in 1..Len(la_concat) :
          /\ i < j
          /\ HasTimestamp(la_concat[i]) /\ HasTimestamp(la_concat[j])
          /\ KeyLess(la_concat[j], la_concat[i])

\* C5: the result is exactly the timestamp-bearing records of the
\* concatenation, each as often as there, and records of equal key stand
\* together in the order they have in the concatenation.
C5_StablePermutation ==
    la_pc = "done" =>
        LET kept == {j \in 1..Len(la_concat) : la_concat[j].row[col_timestamp].kind # "NaT"}
        IN /\ Len(la_merged) = Cardinality(kept)
           /\ {la_merged[i].src : i \in 1..Len(la_merged)} = kept
           /\ \A i \in 1..Len(la_merged) : la_merged[i] = la_concat[la_merged[i].src]
           /\ \A a, b \in 1..Len(la_merged) :
                 (a < b /\ KeyOf(la_merged[a]) = KeyOf(la_merged[b])) =>
                     /\ la_merged[a].src < la_merged[b].src
                     /\ \A m \in a..b : KeyOf(la_merged[m]) = KeyOf(la_merged[a])

\* Two different records of equal key, from two files, are both in the
\* result.
C5_Witness ==
    /\ la_pc = "done"
    /\ \A k \in 1..Len(la_paths) : col_present_weather_code \in Declared(k)
    /\ Len(la_frames) >= 2
    /\ \E a, b \in 1..Len(la_merged) :
          /\ a < b
          /\ KeyOf(la_merged[a]) = KeyOf(la_merged[b])
          /\ la_merged[a].row # la_merged[b].row
          /\ la_merged[a].src <= la_frames[1].n
          /\ la_merged[b].src > la_frames[1].n

====
